---- MODULE Spec2Model ----
(***************************************************************************)
(* Model of homework.py: a bot that polls the Practicum homework API and   *)
(* forwards status changes and errors to one Telegram chat.                *)
(*                                                                         *)
(* Texts.  A Python string is modelled as the sequence of the pieces an    *)
(* f-string joins: literal pieces and interpolated values.  The empty      *)
(* string '' is the empty sequence.  The Russian literals of the source    *)
(* are written in Latin transliteration, one piece per literal.            *)
(*                                                                         *)
(* Control.  pc is the position of main: "start" (line 141), "fetch"       *)
(* (150), "check" (151), "for" (154), "send" (156), "except" (157-176),    *)
(* "finally" (180), "exited" (sys.exit, 145), "crashed" (an exception      *)
(* left main).                                                             *)
(***************************************************************************)
EXTENDS Integers, Sequences, FiniteSets, TLC

VARIABLES
    PRACTICUM_TOKEN, TELEGRAM_TOKEN, TELEGRAM_CHAT_ID,   \* lines 17-19
    LAST_ERROR_MESSAGE,                                  \* line 32
    bot,                \* line 146
    timestamp,          \* lines 147, 153
    api_response,       \* line 150
    homeworks,          \* line 152
    idx,                \* position of the for loop of line 154
    hw,                 \* line 154
    telegram_message,   \* line 155
    exc,                \* the exception in flight, NoExc when none
    pc,
    \* what the iteration has done so far; cleared when it ends
    from_date,          \* params['from_date'] of the last request (line 71)
    fetched,            \* what the last request met
    validated,          \* check_response returned
    parsed,             \* calls of parse_status
    outbox,             \* calls of bot.send_message, in order
    log,                \* logger calls, in order
    raisedAt,           \* the function whose exception the loop caught
    caught,             \* that exception ('error' of the except clause)
    slept,              \* seconds slept since the last request
    prev,               \* the previous iteration in short
    \* the run of consecutive failing iterations with one error text
    runMsg, runRepeated, runSends,
    notified,           \* the last error text that reached the chat, '' once
                        \* an iteration went through without an exception
    cleared             \* such an iteration erased the remembered text
                        \* Watched, and no iteration has failed since

vars == <<PRACTICUM_TOKEN, TELEGRAM_TOKEN, TELEGRAM_CHAT_ID, LAST_ERROR_MESSAGE,
          bot, timestamp, api_response, homeworks, idx, hw, telegram_message,
          exc, pc, from_date, fetched, validated, parsed, outbox, log,
          raisedAt, caught, slept, prev, runMsg, runRepeated, runSends,
          notified, cleared>>

iterVars == <<from_date, fetched, validated, parsed, outbox, log, raisedAt, caught,
              slept, prev>>
envVars == <<PRACTICUM_TOKEN, TELEGRAM_TOKEN, TELEGRAM_CHAT_ID>>
runVars == <<runMsg, runRepeated, runSends, notified>>

---------------------------------------------------------------------------
\* Bounds of the model.
MaxDate == 1          \* timestamps and current_date range over 0..MaxDate
MaxHomeworks == 2     \* longest 'homeworks' list the API returns

\* Program constants.
RETRY_PERIOD == 600
HTTP_OK == 200
ENDPOINT == "https://practicum.yandex.ru/api/user_api/homework_statuses/"

None == "None"
Dates == 0..MaxDate

HOMEWORK_VERDICTS ==
    [s \in {"approved", "reviewing", "rejected"} |->
        CASE s = "approved" -> "Rabota proverena: revyueru vsyo ponravilos. Ura!"
          [] s = "reviewing" -> "Rabota vzyata na proverku revyuerom."
          [] s = "rejected" -> "Rabota proverena: u revyuera est zamechaniya."]

---------------------------------------------------------------------------
\* Values the outside world supplies.

EnvValues == {None, "", "token"}

\* One element of 'homeworks': a dict with the two keys the bot reads (None
\* when the key is absent or null), or something that is no dict.
NotADict == [isDict |-> FALSE, homework_name |-> None, status |-> None]
HomeworkItems ==
    {[isDict |-> TRUE, homework_name |-> "hw1", status |-> s] :
        s \in {"approved", "reviewing", "rejected", "lost", None}}
    \cup {[isDict |-> TRUE, homework_name |-> None, status |-> s] :
        s \in {"lost"}}
    \cup {NotADict}

RECURSIVE ListsUpTo(_)
ListsUpTo(n) ==
    IF n = 0 THEN {<<>>}
    ELSE LET shorter == ListsUpTo(n - 1)
         IN  shorter \cup {Append(l, h) : l \in {s \in shorter : Len(s) = n - 1},
                                          h \in HomeworkItems}

\* A decoded body.  keys: which of the two keys are present; the two IsX
\* flags: whether the value has the documented type.
WellFormed ==
    [isDict : {TRUE}, keys : {{"homeworks", "current_date"}},
     homeworksIsList : {TRUE}, homeworks : ListsUpTo(MaxHomeworks),
     dateIsInt : {TRUE}, current_date : Dates]
Malformed ==
    {r \in [isDict : BOOLEAN, keys : SUBSET {"homeworks", "current_date"},
            homeworksIsList : BOOLEAN,
            homeworks : {<<>>, <<[isDict |-> TRUE, homework_name |-> "hw1",
                                  status |-> "approved"]>>},
            dateIsInt : BOOLEAN, current_date : {0}] :
        /\ ~(r.isDict /\ r.keys = {"homeworks", "current_date"}
               /\ r.homeworksIsList /\ r.dateIsInt)
        \* one representative of each way to be malformed
        /\ ~r.isDict => (r.keys = {} /\ ~r.homeworksIsList /\ ~r.dateIsInt)
        /\ ~r.homeworksIsList => r.homeworks = <<>>
        /\ "homeworks" \notin r.keys => ~r.homeworksIsList
        /\ "current_date" \notin r.keys => ~r.dateIsInt}
Bodies == WellFormed \cup Malformed
NoBody == [isDict |-> FALSE, keys |-> {}, homeworksIsList |-> FALSE,
           homeworks |-> <<>>, dateIsInt |-> FALSE, current_date |-> 0]

\* What requests.get meets: an exception of requests, any other exception,
\* or a response with a status code whose body decodes or not.
NoFetch == [kind |-> "none", status_code |-> 0, json |-> FALSE, body |-> NoBody]
FetchOutcomes ==
    {[kind |-> k, status_code |-> 0, json |-> FALSE, body |-> NoBody] :
        k \in {"RequestException", "Exception"}}
    \cup {[kind |-> "response", status_code |-> c, json |-> FALSE, body |-> NoBody] :
        c \in {404, 503}}
    \cup {[kind |-> "response", status_code |-> HTTP_OK, json |-> FALSE,
           body |-> NoBody]}
    \cup {[kind |-> "response", status_code |-> HTTP_OK, json |-> TRUE, body |-> b] :
        b \in Bodies}

\* What bot.send_message meets: "ok", or the text of a TelegramError.
BotReplies == {"ok", "Timed out"}

---------------------------------------------------------------------------
\* Exceptions and results.

NoExc == [type |-> "none", args |-> <<>>]
Exc(type, args) == [type |-> type, args |-> args]

\* str(error): a KeyError prints the repr of its argument, in quotes.
Str(error) ==
    IF error.type = "KeyError" THEN <<"'">> \o error.args \o <<"'">>
    ELSE error.args

Return(value) == [exc |-> NoExc, value |-> value]
Raise(type, args) == [exc |-> Exc(type, args), value |-> <<>>]

Debug(message) == [level |-> "DEBUG", message |-> message]
Error(message) == [level |-> "ERROR", message |-> message]
Critical(message) == [level |-> "CRITICAL", message |-> message]

---------------------------------------------------------------------------
\* The functions of homework.py.

\* check_tokens with any() for all().
check_tokens_any == \E t \in {PRACTICUM_TOKEN, TELEGRAM_TOKEN, TELEGRAM_CHAT_ID} :
                        t \notin {None, ""}

check_tokens == \A t \in {PRACTICUM_TOKEN, TELEGRAM_TOKEN, TELEGRAM_CHAT_ID} :
                    t \notin {None, ""}

\* send_message: one call of bot.send_message; a TelegramError is wrapped.
send_message(message, reply) ==
    [exc |-> IF reply = "ok" THEN NoExc
             ELSE Exc("TelegramError",
                      <<"Oshibka pri otpravke soobshcheniya v Telegram: ", reply>>),
     sent |-> <<[text |-> message, delivered |-> (reply = "ok")]>>,
     log |-> IF reply = "ok"
             THEN <<Debug(<<"Bot otpravil soobshchenie \"">> \o message \o <<"\"">>)>>
             ELSE <<>>]

\* get_api_answer without the test of line 77: every response is decoded.
get_api_answer_no_status_check(ts, outcome) ==
    CASE outcome.kind = "RequestException" ->
            Raise("NotAvailableAPI", <<"Oshibka pri zaprose k API: ", "ConnectionError">>)
      [] outcome.kind = "Exception" ->
            Raise("Exception", <<"Nepredvidennaya oshibka: ", "unexpected">>)
      [] OTHER ->
            IF ~outcome.json
            THEN Raise("JSONDecodeError", <<"Expecting value">>)
            ELSE Return(outcome.body)

get_api_answer(ts, outcome) ==
    CASE outcome.kind = "RequestException" ->
            Raise("NotAvailableAPI", <<"Oshibka pri zaprose k API: ", "ConnectionError">>)
      [] outcome.kind = "Exception" ->
            Raise("Exception", <<"Nepredvidennaya oshibka: ", "unexpected">>)
      [] OTHER ->
            IF outcome.status_code # HTTP_OK
            THEN Raise("NotAvailableAPI",
                       <<"Endpoint ", ENDPOINT, " nedostupen. ", "Kod otveta API: ",
                         ToString(outcome.status_code)>>)
            ELSE IF ~outcome.json
            THEN Raise("JSONDecodeError", <<"Expecting value">>)
            ELSE Return(outcome.body)

\* check_response testing every element of homeworks, not the first alone.
check_response_all_elements(response) ==
    IF ~response.isDict
    THEN Exc("TypeError", <<"Otvet API ne yavlyaetsya JSON strukturoy">>)
    ELSE IF "homeworks" \notin response.keys
    THEN Exc("KeyError", <<"Klyuch \"homeworks\" otsutstvuet v otvete API">>)
    ELSE IF ~response.homeworksIsList
    THEN Exc("TypeError", <<"Znachenie klyucha \"homeworks\" iz otveta ",
                            "API ne yavlyaetsya tipom list">>)
    ELSE IF "current_date" \notin response.keys
    THEN Exc("KeyError", <<"Klyuch \"current_date\" otsutstvuet v otvete API">>)
    ELSE IF ~response.dateIsInt
    THEN Exc("TypeError", <<"Znachenie klyucha \"current_date\" iz otveta ",
                            "API ne yavlyaetsya tipom int">>)
    ELSE IF \E i \in DOMAIN response.homeworks : ~response.homeworks[i].isDict
    THEN Exc("TypeError", <<"Informaciya o DZ ne yavlyaetsya tipom ", "<class 'dict'>">>)
    ELSE NoExc

\* check_response without the two tests of current_date (lines 96-100).
check_response_no_date_check(response) ==
    IF ~response.isDict
    THEN Exc("TypeError", <<"Otvet API ne yavlyaetsya JSON strukturoy">>)
    ELSE IF "homeworks" \notin response.keys
    THEN Exc("KeyError", <<"Klyuch \"homeworks\" otsutstvuet v otvete API">>)
    ELSE IF ~response.homeworksIsList
    THEN Exc("TypeError", <<"Znachenie klyucha \"homeworks\" iz otveta ",
                            "API ne yavlyaetsya tipom list">>)
    ELSE IF Len(response.homeworks) > 0 /\ ~response.homeworks[1].isDict
    THEN Exc("TypeError", <<"Informaciya o DZ ne yavlyaetsya tipom ", "<class 'dict'>">>)
    ELSE NoExc

\* check_response reading homeworks[0] without the length test of line 102.
check_response_index_first(response) ==
    IF ~response.isDict
    THEN Exc("TypeError", <<"Otvet API ne yavlyaetsya JSON strukturoy">>)
    ELSE IF "homeworks" \notin response.keys
    THEN Exc("KeyError", <<"Klyuch \"homeworks\" otsutstvuet v otvete API">>)
    ELSE IF ~response.homeworksIsList
    THEN Exc("TypeError", <<"Znachenie klyucha \"homeworks\" iz otveta ",
                            "API ne yavlyaetsya tipom list">>)
    ELSE IF "current_date" \notin response.keys
    THEN Exc("KeyError", <<"Klyuch \"current_date\" otsutstvuet v otvete API">>)
    ELSE IF ~response.dateIsInt
    THEN Exc("TypeError", <<"Znachenie klyucha \"current_date\" iz otveta ",
                            "API ne yavlyaetsya tipom int">>)
    ELSE IF Len(response.homeworks) = 0
    THEN Exc("IndexError", <<"list index out of range">>)
    ELSE IF ~response.homeworks[1].isDict
    THEN Exc("TypeError", <<"Informaciya o DZ ne yavlyaetsya tipom ", "<class 'dict'>">>)
    ELSE NoExc

check_response(response) ==
    IF ~response.isDict
    THEN Exc("TypeError", <<"Otvet API ne yavlyaetsya JSON strukturoy">>)
    ELSE IF "homeworks" \notin response.keys
    THEN Exc("KeyError", <<"Klyuch \"homeworks\" otsutstvuet v otvete API">>)
    ELSE IF ~response.homeworksIsList
    THEN Exc("TypeError", <<"Znachenie klyucha \"homeworks\" iz otveta ",
                            "API ne yavlyaetsya tipom list">>)
    ELSE IF "current_date" \notin response.keys
    THEN Exc("KeyError", <<"Klyuch \"current_date\" otsutstvuet v otvete API">>)
    ELSE IF ~response.dateIsInt
    THEN Exc("TypeError", <<"Znachenie klyucha \"current_date\" iz otveta ",
                            "API ne yavlyaetsya tipom int">>)
    ELSE IF Len(response.homeworks) > 0 /\ ~response.homeworks[1].isDict
    THEN Exc("TypeError", <<"Informaciya o DZ ne yavlyaetsya tipom ", "<class 'dict'>">>)
    ELSE NoExc

\* The debug line of check_response (line 106).
check_response_log(response) ==
    IF check_response(response) = NoExc /\ Len(response.homeworks) = 0
    THEN <<Debug(<<"V otvete API otsutstvuyut novye statusy rabot">>)>>
    ELSE <<>>

\* parse_status putting the status key, not its verdict, in the sentence.
parse_status_raw_status(homework) ==
    IF ~homework.isDict
    THEN Raise("AttributeError", <<"object has no attribute 'get'">>)
    ELSE IF homework.homework_name = None
    THEN Raise("KeyError",
               <<"Otvet API ne soderzhit informaciyu ob imeni domashnego zadaniya">>)
    ELSE IF homework.status = None
    THEN Raise("KeyError",
               <<"Otvet API ne soderzhit informaciyu o statuse domashney raboty">>)
    ELSE IF homework.status \notin DOMAIN HOMEWORK_VERDICTS
    THEN Raise("KeyError",
               <<"V otvete ot API poluchen neozhidannyy status ",
                 "domashnego zadaniya - ", homework.status>>)
    ELSE Return(<<"Izmenilsya status proverki raboty \"", homework.homework_name,
                  "\". ", homework.status>>)

\* parse_status with HOMEWORK_VERDICTS.get(status, status): no test of line 122.
parse_status_default_verdict(homework) ==
    IF ~homework.isDict
    THEN Raise("AttributeError", <<"object has no attribute 'get'">>)
    ELSE IF homework.homework_name = None
    THEN Raise("KeyError",
               <<"Otvet API ne soderzhit informaciyu ob imeni domashnego zadaniya">>)
    ELSE IF homework.status = None
    THEN Raise("KeyError",
               <<"Otvet API ne soderzhit informaciyu o statuse domashney raboty">>)
    ELSE Return(<<"Izmenilsya status proverki raboty \"", homework.homework_name,
                  "\". ",
                  IF homework.status \in DOMAIN HOMEWORK_VERDICTS
                  THEN HOMEWORK_VERDICTS[homework.status] ELSE homework.status>>)

parse_status(homework) ==
    IF ~homework.isDict
    THEN Raise("AttributeError", <<"object has no attribute 'get'">>)
    ELSE IF homework.homework_name = None
    THEN Raise("KeyError",
               <<"Otvet API ne soderzhit informaciyu ob imeni domashnego zadaniya">>)
    ELSE IF homework.status = None
    THEN Raise("KeyError",
               <<"Otvet API ne soderzhit informaciyu o statuse domashney raboty">>)
    ELSE IF homework.status \notin DOMAIN HOMEWORK_VERDICTS
    THEN Raise("KeyError",
               <<"V otvete ot API poluchen neozhidannyy status ",
                 "domashnego zadaniya - ", homework.status>>)
    ELSE Return(<<"Izmenilsya status proverki raboty \"", homework.homework_name,
                  "\". ", HOMEWORK_VERDICTS[homework.status]>>)

\* send_error_message without the comparison of line 133.
send_error_message_always(message, reply) ==
    LET r == send_message(message, reply)
    IN  [exc |-> r.exc, sent |-> r.sent, log |-> r.log,
         last |-> IF r.exc = NoExc THEN message ELSE LAST_ERROR_MESSAGE]

\* send_error_message sending only while no error is remembered.
send_error_message_first_only(message, reply) ==
    IF LAST_ERROR_MESSAGE = <<>>
    THEN LET r == send_message(message, reply)
         IN  [exc |-> r.exc, sent |-> r.sent, log |-> r.log,
              last |-> IF r.exc = NoExc THEN message ELSE LAST_ERROR_MESSAGE]
    ELSE [exc |-> NoExc, sent |-> <<>>, log |-> <<>>, last |-> LAST_ERROR_MESSAGE]

\* send_error_message assigning LAST_ERROR_MESSAGE before it sends.
send_error_message_remember_first(message, reply) ==
    IF message # LAST_ERROR_MESSAGE
    THEN LET r == send_message(message, reply)
         IN  [exc |-> r.exc, sent |-> r.sent, log |-> r.log, last |-> message]
    ELSE [exc |-> NoExc, sent |-> <<>>, log |-> <<>>, last |-> LAST_ERROR_MESSAGE]

\* send_error_message trying once more when the send raised.
send_error_message_retry(message, reply) ==
    IF message # LAST_ERROR_MESSAGE
    THEN LET r == send_message(message, reply)
         IN  [exc |-> r.exc,
              sent |-> IF r.exc = NoExc THEN r.sent ELSE r.sent \o r.sent,
              log |-> r.log,
              last |-> IF r.exc = NoExc THEN message ELSE LAST_ERROR_MESSAGE]
    ELSE [exc |-> NoExc, sent |-> <<>>, log |-> <<>>, last |-> LAST_ERROR_MESSAGE]

\* send_error_message: sends unless the text equals LAST_ERROR_MESSAGE, and
\* remembers the text once send_message returned.  last: the value of
\* LAST_ERROR_MESSAGE when the call ends.
send_error_message(message, reply) ==
    IF message # LAST_ERROR_MESSAGE
    THEN LET r == send_message(message, reply)
         IN  [exc |-> r.exc, sent |-> r.sent, log |-> r.log,
              last |-> IF r.exc = NoExc THEN message ELSE LAST_ERROR_MESSAGE]
    ELSE [exc |-> NoExc, sent |-> <<>>, log |-> <<>>, last |-> LAST_ERROR_MESSAGE]

Tagged(sent, kind) ==
    [i \in DOMAIN sent |->
        [text |-> sent[i].text, delivered |-> sent[i].delivered, kind |-> kind]]

---------------------------------------------------------------------------
\* main.

Unset == -1
\* prev before the first iteration has ended.
NoIteration == [from_date |-> Unset, validated |-> FALSE, allSent |-> FALSE,
                raisedAt |-> "none", ended |-> FALSE]
NoHomework == NotADict

Init ==
    /\ PRACTICUM_TOKEN \in EnvValues
    /\ TELEGRAM_TOKEN \in EnvValues
    /\ TELEGRAM_CHAT_ID \in EnvValues
    /\ LAST_ERROR_MESSAGE = <<>>
    /\ bot = None
    /\ timestamp = Unset
    /\ api_response = NoBody
    /\ homeworks = <<>>
    /\ idx = 0
    /\ hw = NoHomework
    /\ telegram_message = <<>>
    /\ exc = NoExc
    /\ pc = "start"
    /\ from_date = Unset
    /\ fetched = NoFetch
    /\ validated = FALSE
    /\ parsed = 0
    /\ outbox = <<>>
    /\ log = <<>>
    /\ raisedAt = "none"
    /\ caught = NoExc
    /\ slept = 0
    /\ prev = NoIteration
    /\ runMsg = <<>>
    /\ runRepeated = FALSE
    /\ runSends = 0
    /\ notified = <<>>
    /\ cleared = FALSE

\* Lines 141-145: a credential is missing.
StartExit ==
    /\ pc = "start"
    /\ ~check_tokens
    /\ log' = Append(log, Critical(<<"Sboy zapuska bota: Otsutstvuyut premennye okruzheniya.\n",
                                     "Programma prinuditelno ostanovlena.">>))
    /\ pc' = "exited"
    /\ UNCHANGED <<envVars, LAST_ERROR_MESSAGE, bot, timestamp, api_response,
                   homeworks, idx, hw, telegram_message, exc, from_date, fetched,
                   validated, parsed, outbox, raisedAt, caught, slept, prev, runVars,
                   cleared>>

\* Lines 141, 146-148: the bot is built and the cursor is the clock's value.
StartLoop ==
    /\ pc = "start"
    /\ check_tokens
    /\ bot' = "Bot"
    /\ \E now \in Dates : timestamp' = now
    /\ pc' = "fetch"
    /\ UNCHANGED <<envVars, LAST_ERROR_MESSAGE, api_response, homeworks, idx, hw,
                   telegram_message, exc, iterVars, runVars, cleared>>

\* Line 150.
Fetch ==
    /\ pc = "fetch"
    /\ \E outcome \in FetchOutcomes :
        LET r == get_api_answer(timestamp, outcome)
        IN  /\ from_date' = timestamp
            /\ fetched' = outcome
            /\ api_response' = IF r.exc = NoExc THEN r.value ELSE NoBody
            /\ exc' = r.exc
            /\ caught' = r.exc
            /\ raisedAt' = IF r.exc = NoExc THEN "none" ELSE "get_api_answer"
            /\ pc' = IF r.exc = NoExc THEN "check" ELSE "except"
    /\ slept' = 0
    /\ UNCHANGED <<envVars, LAST_ERROR_MESSAGE, bot, timestamp, homeworks, idx, hw,
                   telegram_message, validated, parsed, outbox, log, prev, runVars,
                   cleared>>

\* Line 153 guarded: the cursor takes current_date only when it is later.
AssignCursor_only_forward(response) ==
    /\ homeworks' = response.homeworks
    /\ timestamp' = IF response.current_date > timestamp
                    THEN response.current_date ELSE timestamp

\* Line 152 without line 153.
AssignCursor_keep_cursor(response) ==
    /\ homeworks' = response.homeworks
    /\ UNCHANGED timestamp

\* The assignments of lines 152-153, made once check_response returned.
AssignCursor(response) ==
    /\ homeworks' = response.homeworks
    /\ timestamp' = response.current_date

\* Lines 151-153.
Check ==
    /\ pc = "check"
    /\ LET e == check_response(api_response)
       IN  /\ log' = log \o check_response_log(api_response)
           /\ IF e = NoExc
              THEN /\ AssignCursor(api_response)
                   /\ validated' = TRUE
                   /\ pc' = "for"
                   /\ UNCHANGED <<exc, raisedAt, caught>>
              ELSE /\ exc' = e
                   /\ caught' = e
                   /\ raisedAt' = "check_response"
                   /\ pc' = "except"
                   /\ UNCHANGED <<homeworks, timestamp, validated>>
    /\ idx' = 0
    /\ UNCHANGED <<envVars, LAST_ERROR_MESSAGE, bot, api_response, hw,
                   telegram_message, from_date, fetched, parsed, outbox, slept,
                   prev, runVars, cleared>>

\* Lines 154-155: the next record is taken and translated.
Parse ==
    /\ pc = "for"
    /\ idx < Len(homeworks)
    /\ idx' = idx + 1
    /\ hw' = homeworks[idx + 1]
    /\ parsed' = parsed + 1
    /\ LET r == parse_status(homeworks[idx + 1])
       IN  IF r.exc = NoExc
           THEN /\ telegram_message' = r.value
                /\ pc' = "send"
                /\ UNCHANGED <<exc, raisedAt, caught>>
           ELSE /\ exc' = r.exc
                /\ caught' = r.exc
                /\ raisedAt' = "parse_status"
                /\ pc' = "except"
                /\ UNCHANGED telegram_message
    /\ UNCHANGED <<envVars, LAST_ERROR_MESSAGE, bot, timestamp, api_response,
                   homeworks, from_date, fetched, validated, outbox, log, slept,
                   prev, runVars, cleared>>

\* Line 156 with the TelegramError swallowed: the loop goes on.
Send_swallows_error ==
    /\ pc = "send"
    /\ \E reply \in BotReplies :
        LET r == send_message(telegram_message, reply)
        IN  /\ outbox' = outbox \o Tagged(r.sent, "status")
            /\ log' = log \o r.log
            /\ UNCHANGED <<exc, caught, raisedAt>>
            /\ pc' = "for"
    /\ UNCHANGED <<envVars, LAST_ERROR_MESSAGE, bot, timestamp, api_response,
                   homeworks, idx, hw, telegram_message, from_date, fetched,
                   validated, parsed, slept, prev, runVars, cleared>>

\* Line 156.
Send ==
    /\ pc = "send"
    /\ \E reply \in BotReplies :
        LET r == send_message(telegram_message, reply)
        IN  /\ outbox' = outbox \o Tagged(r.sent, "status")
            /\ log' = log \o r.log
            /\ exc' = r.exc
            /\ caught' = r.exc
            /\ raisedAt' = IF r.exc = NoExc THEN raisedAt ELSE "send_message"
            /\ pc' = IF r.exc = NoExc THEN "for" ELSE "except"
    /\ UNCHANGED <<envVars, LAST_ERROR_MESSAGE, bot, timestamp, api_response,
                   homeworks, idx, hw, telegram_message, from_date, fetched,
                   validated, parsed, slept, prev, runVars, cleared>>

\* The text every except clause builds (lines 158, 162, 166, 170, 174).
ErrorText(error) == <<"Sboy v rabote programmy: ">> \o Str(error)

\* One error text, followed through the iterations: the one of a 503.
Watched ==
    ErrorText(Exc("NotAvailableAPI",
                  <<"Endpoint ", ENDPOINT, " nedostupen. ", "Kod otveta API: ", "503">>))

\* The else clause without the assignment of line 178.
Else_keeps_last ==
    /\ pc = "for"
    /\ idx = Len(homeworks)
    /\ UNCHANGED LAST_ERROR_MESSAGE
    /\ runMsg' = <<>>
    /\ runRepeated' = FALSE
    /\ runSends' = 0
    /\ notified' = <<>>
    /\ cleared' = (cleared \/ LAST_ERROR_MESSAGE = Watched)
    /\ pc' = "finally"
    /\ UNCHANGED <<envVars, bot, timestamp, api_response, homeworks, idx, hw,
                   telegram_message, exc, iterVars>>

\* Lines 177-178: the try block ended without an exception.
Else ==
    /\ pc = "for"
    /\ idx = Len(homeworks)
    /\ LAST_ERROR_MESSAGE' = <<>>
    /\ runMsg' = <<>>
    /\ runRepeated' = FALSE
    /\ runSends' = 0
    /\ notified' = <<>>
    /\ cleared' = (cleared \/ LAST_ERROR_MESSAGE = Watched)
    /\ pc' = "finally"
    /\ UNCHANGED <<envVars, bot, timestamp, api_response, homeworks, idx, hw,
                   telegram_message, exc, iterVars>>

\* Lines 157-176: the five except clauses have one body.  An exception of
\* send_error_message is raised inside the clause, so no clause catches it.
Except ==
    /\ pc = "except"
    /\ LET message == ErrorText(caught)
       IN  \E reply \in BotReplies :
            LET r == send_error_message(message, reply)
            IN  /\ log' = log \o <<Error(message)>> \o r.log
                /\ outbox' = outbox \o Tagged(r.sent, "error")
                /\ LAST_ERROR_MESSAGE' = r.last
                /\ exc' = r.exc
                /\ runMsg' = message
                /\ runRepeated' = (runMsg = message)
                /\ runSends' = (IF runMsg = message THEN runSends ELSE 0) + Len(r.sent)
                /\ notified' = IF r.sent # <<>> /\ r.sent[1].delivered
                               THEN message ELSE notified
    /\ pc' = "finally"
    /\ UNCHANGED <<envVars, bot, timestamp, api_response, homeworks, idx, hw,
                   telegram_message, from_date, fetched, validated, parsed,
                   raisedAt, caught, slept, prev, cleared>>

\* The status messages of this iteration that reached the chat.
Delivered == SelectSeq(outbox, LAMBDA m : m.kind = "status" /\ m.delivered)

\* The sleep as the last statement of the try block, not in a finally clause.
Sleep_in_try_body ==
    /\ pc = "finally"
    /\ slept' = IF raisedAt = "none" THEN slept + RETRY_PERIOD ELSE slept
    /\ IF exc # NoExc
       THEN /\ pc' = "crashed"
            /\ UNCHANGED <<api_response, homeworks, idx, hw, telegram_message,
                           from_date, fetched, validated, parsed, outbox, log,
                           raisedAt, caught, prev, cleared>>
       ELSE /\ pc' = "fetch"
            /\ prev' = [from_date |-> from_date, validated |-> validated,
                        allSent |-> (Len(Delivered) = Len(homeworks)),
                        raisedAt |-> raisedAt, ended |-> TRUE]
            /\ api_response' = NoBody
            /\ homeworks' = <<>>
            /\ idx' = 0
            /\ hw' = NoHomework
            /\ telegram_message' = <<>>
            /\ fetched' = NoFetch
            /\ validated' = FALSE
            /\ parsed' = 0
            /\ outbox' = <<>>
            /\ log' = <<>>
            /\ raisedAt' = "none"
            /\ caught' = NoExc
            /\ cleared' = (cleared /\ raisedAt = "none")
            /\ UNCHANGED from_date
    /\ UNCHANGED <<envVars, LAST_ERROR_MESSAGE, bot, timestamp, exc, runVars>>

\* Lines 179-180, and what follows the finally clause: the exception of the
\* except clause leaves main, or the next iteration starts.  The locals of an
\* ended iteration are dead (each is assigned before it is read again), so
\* the next one starts from their unset values.
Sleep ==
    /\ pc = "finally"
    /\ slept' = slept + RETRY_PERIOD
    /\ IF exc # NoExc
       THEN /\ pc' = "crashed"
            /\ UNCHANGED <<api_response, homeworks, idx, hw, telegram_message,
                           from_date, fetched, validated, parsed, outbox, log,
                           raisedAt, caught, prev, cleared>>
       ELSE /\ pc' = "fetch"
            /\ prev' = [from_date |-> from_date, validated |-> validated,
                        allSent |-> (Len(Delivered) = Len(homeworks)),
                        raisedAt |-> raisedAt, ended |-> TRUE]
            /\ api_response' = NoBody
            /\ homeworks' = <<>>
            /\ idx' = 0
            /\ hw' = NoHomework
            /\ telegram_message' = <<>>
            /\ fetched' = NoFetch
            /\ validated' = FALSE
            /\ parsed' = 0
            /\ outbox' = <<>>
            /\ log' = <<>>
            /\ raisedAt' = "none"
            /\ caught' = NoExc
            /\ cleared' = (cleared /\ raisedAt = "none")
            /\ UNCHANGED from_date
    /\ UNCHANGED <<envVars, LAST_ERROR_MESSAGE, bot, timestamp, exc, runVars>>

Next ==
    \/ StartExit
    \/ StartLoop
    \/ Fetch
    \/ Check
    \/ Parse
    \/ Send
    \/ Else
    \/ Except
    \/ Sleep

Spec == Init /\ [][Next]_vars

---------------------------------------------------------------------------
\* Properties.

Range(seq) == {seq[i] : i \in DOMAIN seq}
StatusSends == SelectSeq(outbox, LAMBDA m : m.kind = "status")
ErrorSends == SelectSeq(outbox, LAMBDA m : m.kind = "error")
ErrorLines == SelectSeq(log, LAMBDA l : l.level = "ERROR")
Failed == raisedAt # "none"
\* The except clause of this iteration has run.
Handled == Failed /\ pc \in {"finally", "crashed"}

\* C1: if parse_status or send_message fails for a record, the cursor after
\* the iteration is still the from_date the iteration began with.
C1_CursorKeptWhenRecordFails ==
    (pc \in {"except", "finally", "crashed"}
       /\ raisedAt \in {"parse_status", "send_message"})
    => timestamp = from_date

\* C2: once the bot is built and the loop entered, main never ends: it ends
\* only by sys.exit at startup.
C2_LoopNeverEnds == pc \in {"exited", "crashed"} => bot = None

\* C3: when a request follows an iteration whose response passed
\* check_response and whose records were not all sent, it carries the same
\* from_date as the request of that iteration.
C3_AtLeastOnce ==
    (pc # "fetch" /\ prev.validated /\ ~prev.allSent) => from_date = prev.from_date

\* C4: a run of consecutive failing iterations with one error text makes
\* exactly one call of bot.send_message for it, and the second and later
\* calls of send_error_message in the run send nothing.
C4_DedupOneSend ==
    /\ runMsg # <<>> => runSends = 1
    /\ (Handled /\ runRepeated) => ErrorSends = <<>>
C4_Witness ==
    /\ pc = "finally"
    /\ Failed
    /\ runRepeated
    /\ prev.raisedAt # "none"
    /\ runSends = 1

\* C5: a call of send_error_message whose text differs from
\* LAST_ERROR_MESSAGE calls bot.send_message with that text; of two calls in
\* succession with different texts the second always sends, and the sends
\* made for the two texts are two.
SendsNow(m) ==
    /\ Len(outbox') = Len(outbox) + 1
    /\ outbox'[Len(outbox')].kind = "error"
    /\ outbox'[Len(outbox')].text = m
    /\ runSends' = 1
C5_Step ==
    pc = "except" =>
        /\ ErrorText(caught) # LAST_ERROR_MESSAGE => SendsNow(ErrorText(caught))
        /\ (runMsg # <<>> /\ ErrorText(caught) # runMsg)
            => (SendsNow(ErrorText(caught)) /\ runSends + runSends' = 2)
C5_DifferentTextIsSent == [][C5_Step]_vars
C5_Witness ==
    /\ pc = "finally"
    /\ Failed
    /\ prev.raisedAt # "none"
    /\ ~runRepeated
    /\ Len(ErrorSends) = 1
    /\ ErrorSends[1].delivered

\* C6: a failure of the request or of check_response (a body without
\* current_date among them) happens before any record is translated or
\* sent, leaves the cursor at from_date, and the next request carries the
\* same from_date.
Untouched == parsed = 0 /\ StatusSends = <<>> /\ timestamp = from_date
C6_EarlyFailureKeepsCursor ==
    /\ raisedAt \in {"get_api_answer", "check_response"} => Untouched
    /\ (fetched.kind \in {"RequestException", "Exception"}
          \/ (fetched.kind = "response" /\ fetched.status_code # HTTP_OK))
        => (raisedAt = "get_api_answer" /\ Untouched)
    /\ (fetched.kind = "response" /\ fetched.json /\ pc # "check"
          /\ "current_date" \notin fetched.body.keys)
        => (raisedAt = "check_response" /\ Untouched)
    /\ prev.raisedAt \in {"get_api_answer", "check_response"}
        => from_date = prev.from_date
C6_Witness ==
    /\ pc = "finally"
    /\ raisedAt = "check_response"
    /\ fetched.body.keys = {"homeworks"}
    /\ Len(fetched.body.homeworks) > 0
    /\ prev.raisedAt = "get_api_answer"
    /\ timestamp = 1

\* C7: a response with a status code other than 200 raises NotAvailableAPI
\* whose text holds the endpoint URL and the code; the iteration logs one
\* error line with it, passes it to send_error_message, and keeps the cursor.
CodeText(code) == CASE code = 404 -> "404" [] code = 503 -> "503" [] OTHER -> "?"
C7_Non200 ==
    (fetched.kind = "response" /\ fetched.status_code # HTTP_OK) =>
        /\ raisedAt = "get_api_answer"
        /\ caught.type = "NotAvailableAPI"
        /\ ENDPOINT \in Range(ErrorText(caught))
        /\ CodeText(fetched.status_code) \in Range(ErrorText(caught))
        /\ timestamp = from_date
        /\ pc \in {"except", "finally", "crashed"}
        /\ pc # "except" =>
            /\ ErrorLines = <<Error(ErrorText(caught))>>
            /\ runMsg = ErrorText(caught)
            /\ \/ Len(ErrorSends) = 1 /\ ErrorSends[1].text = ErrorText(caught)
               \/ ErrorSends = <<>> /\ runRepeated
C7_Witness ==
    /\ pc = "finally"
    /\ fetched.status_code = 503
    /\ Len(ErrorSends) = 1
    /\ ErrorSends[1].delivered
    /\ LAST_ERROR_MESSAGE = ErrorText(caught)

\* C8: a response of the documented shape with an empty homeworks list sends
\* nothing and never reaches an except clause: the iteration goes from the
\* check to the else clause and the sleep.
ValidShape(body) ==
    /\ body.isDict
    /\ body.keys = {"homeworks", "current_date"}
    /\ body.homeworksIsList
    /\ body.dateIsInt
C8_EmptyIsSuccess ==
    (fetched.kind = "response" /\ fetched.status_code = HTTP_OK /\ fetched.json
       /\ ValidShape(fetched.body) /\ fetched.body.homeworks = <<>> /\ pc # "check")
    => /\ validated
       /\ outbox = <<>>
       /\ ~Failed
       /\ ErrorLines = <<>>
       /\ pc \in {"for", "finally"}
       /\ pc = "finally" => LAST_ERROR_MESSAGE = <<>>
C8_Witness ==
    /\ pc = "finally"
    /\ validated
    /\ fetched.body.homeworks = <<>>
    /\ prev.raisedAt # "none"

\* C9: for a record with a name and a status that is a key of
\* HOMEWORK_VERDICTS, parse_status returns the sentence with the name and
\* the verdict of that status.
ExpectedSentence(name, status) ==
    CASE status = "approved" ->
            <<"Izmenilsya status proverki raboty \"", name, "\". ",
              "Rabota proverena: revyueru vsyo ponravilos. Ura!">>
      [] status = "reviewing" ->
            <<"Izmenilsya status proverki raboty \"", name, "\". ",
              "Rabota vzyata na proverku revyuerom.">>
      [] status = "rejected" ->
            <<"Izmenilsya status proverki raboty \"", name, "\". ",
              "Rabota proverena: u revyuera est zamechaniya.">>
C9_Sentence ==
    (parsed > 0 /\ hw.isDict /\ hw.homework_name # None
       /\ hw.status \in {"approved", "reviewing", "rejected"})
    => /\ telegram_message = ExpectedSentence(hw.homework_name, hw.status)
       /\ raisedAt # "parse_status"
C9_Witness ==
    /\ pc = "send"
    /\ parsed = 2
    /\ hw.status = "rejected"
    /\ homeworks[1].status = "approved"

\* C10 as stated: for every record that has a status which is no key of
\* HOMEWORK_VERDICTS, parse_status raises an error naming that status and no
\* status message is sent for the record.
UnknownStatus == parsed > 0 /\ hw.isDict /\ hw.status \notin DOMAIN HOMEWORK_VERDICTS
NotSent ==
    /\ raisedAt = "parse_status"
    /\ pc \in {"except", "finally", "crashed"}
    /\ Len(StatusSends) = parsed - 1
C10_UnknownStatusNamed ==
    (UnknownStatus /\ hw.status # None)
    => (NotSent /\ hw.status \in Range(caught.args))
\* C10 amended: parse_status raises for every record whose status is no key
\* of HOMEWORK_VERDICTS and no status message is sent for it; the error
\* names the status when the record has a name and a status.
C10_UnknownStatusRaises ==
    /\ UnknownStatus => NotSent
    /\ (UnknownStatus /\ hw.homework_name # None /\ hw.status # None)
        => (caught.type = "KeyError" /\ hw.status \in Range(caught.args))
C10_Witness ==
    /\ pc = "finally"
    /\ parsed = 2
    /\ hw.homework_name = "hw1"
    /\ hw.status = "lost"
    /\ Len(StatusSends) = 1

\* C11: an iteration in which nothing raised has sent one status message
\* per record, in the order of the response, each the sentence of its record;
\* the cursor is then the response's current_date and LAST_ERROR_MESSAGE is
\* empty.
SentFor(homework) ==
    [text |-> ExpectedSentence(homework.homework_name, homework.status),
     delivered |-> TRUE, kind |-> "status"]
C11_FullSuccess ==
    (pc = "finally" /\ ~Failed) =>
        /\ validated
        /\ fetched.kind = "response" /\ fetched.json
        /\ timestamp = fetched.body.current_date
        /\ LAST_ERROR_MESSAGE = <<>>
        /\ homeworks = fetched.body.homeworks
        /\ Len(outbox) = Len(homeworks)
        /\ \A i \in DOMAIN homeworks : outbox[i] = SentFor(homeworks[i])
C11_Witness ==
    /\ pc = "finally"
    /\ ~Failed
    /\ Len(homeworks) = 2
    /\ homeworks[1].status = "approved"
    /\ homeworks[2].status = "reviewing"
    /\ from_date = 0
    /\ timestamp = 1
    /\ prev.raisedAt # "none"

\* C12: with a credential missing or empty, main ends at startup: the bot is
\* never built, no request is made, nothing is sent, and nothing follows the
\* exit.
MissingCredential ==
    \E t \in {PRACTICUM_TOKEN, TELEGRAM_TOKEN, TELEGRAM_CHAT_ID} : t \in {None, ""}
C12_MissingCredentialExits ==
    MissingCredential =>
        /\ pc \in {"start", "exited"}
        /\ bot = None
        /\ timestamp = Unset
        /\ from_date = Unset
        /\ fetched = NoFetch
        /\ outbox = <<>>
        /\ pc = "exited" => (Len(log) = 1 /\ log[1].level = "CRITICAL" /\ ~ENABLED Next)
C12_Witness ==
    /\ pc = "exited"
    /\ PRACTICUM_TOKEN = "token"
    /\ TELEGRAM_TOKEN = "token"
    /\ TELEGRAM_CHAT_ID = ""

\* C13: every iteration sleeps RETRY_PERIOD once after its work, whatever
\* happened in it: each request but the first is made after exactly one
\* sleep, and an exception leaves main only after the sleep.
C13_SleepEveryIteration ==
    /\ pc \in {"check", "for", "send", "except", "finally"} => slept = 0
    /\ pc = "fetch" => slept = (IF prev.ended THEN RETRY_PERIOD ELSE 0)
    /\ pc = "crashed" => slept = RETRY_PERIOD
C13_Witness ==
    /\ pc = "crashed"
    /\ raisedAt = "send_message"
    /\ slept = RETRY_PERIOD
    /\ prev.ended

\* C14: LAST_ERROR_MESSAGE changes only when send_error_message has sent a
\* text, to that text, and when the else clause empties it; a send that
\* raised leaves it as it was.  So it is always the last error text that
\* reached the chat, or empty when none did since the last iteration without
\* an exception.
LastSend == outbox'[Len(outbox')]
C14_Step ==
    /\ LAST_ERROR_MESSAGE' # LAST_ERROR_MESSAGE =>
        \/ /\ pc = "except"
           /\ Len(outbox') = Len(outbox) + 1
           /\ LastSend = [text |-> ErrorText(caught), delivered |-> TRUE,
                          kind |-> "error"]
           /\ LAST_ERROR_MESSAGE' = ErrorText(caught)
        \/ /\ pc = "for"
           /\ pc' = "finally"
           /\ ~Failed
           /\ LAST_ERROR_MESSAGE' = <<>>
    /\ (pc = "except" /\ Len(outbox') = Len(outbox) + 1) =>
        LAST_ERROR_MESSAGE' = (IF LastSend.delivered THEN LastSend.text
                               ELSE LAST_ERROR_MESSAGE)
C14_LastErrorMessage ==
    /\ [](LAST_ERROR_MESSAGE = notified)
    /\ [][C14_Step]_vars
C14_Witness ==
    /\ pc = "finally"
    /\ Failed
    /\ Len(ErrorSends) = 1
    /\ ~ErrorSends[1].delivered
    /\ LAST_ERROR_MESSAGE # <<>>
    /\ LAST_ERROR_MESSAGE # ErrorSends[1].text
    /\ prev.raisedAt # "none"

\* C15: an iteration that fails right after an iteration without an
\* exception sends its error text, whatever it is: also a text that reached
\* the chat before that iteration.  No error text is empty.
C15_Step ==
    pc = "except" =>
        /\ ErrorText(caught) # <<>>
        /\ (prev.ended /\ prev.raisedAt = "none") =>
            (LAST_ERROR_MESSAGE = <<>> /\ SendsNow(ErrorText(caught)))
        /\ cleared => (prev.ended /\ prev.raisedAt = "none")
C15_NotifiedAgainAfterSuccess == [][C15_Step]_vars
C15_Witness ==
    /\ pc = "finally"
    /\ Failed
    /\ cleared
    /\ runMsg = Watched
    /\ Len(ErrorSends) = 1
    /\ ErrorSends[1].text = Watched

\* C16: the records are translated and sent one after the other in the
\* order of the response; the first record whose translation or send raises
\* ends the try block: the records before it have been sent, the ones after
\* it are neither translated nor sent.
Aborted == pc \in {"except", "finally", "crashed"}
C16_InOrderUntilFirstFailure ==
    /\ parsed = idx
    /\ parsed <= Len(homeworks)
    /\ outbox = StatusSends \o ErrorSends
    /\ Len(StatusSends) \in {parsed - 1, parsed}
    /\ \A i \in DOMAIN StatusSends :
        /\ homeworks[i].status \in {"approved", "reviewing", "rejected"}
        /\ StatusSends[i].text
             = ExpectedSentence(homeworks[i].homework_name, homeworks[i].status)
        /\ i < Len(StatusSends) => StatusSends[i].delivered
    /\ pc = "send" => (Len(StatusSends) = parsed - 1 /\ hw = homeworks[parsed])
    /\ pc = "for" => Len(StatusSends) = parsed
    /\ raisedAt = "parse_status" =>
        /\ Aborted
        /\ hw = homeworks[parsed]
        /\ Len(StatusSends) = parsed - 1
    /\ raisedAt = "send_message" =>
        /\ Aborted
        /\ hw = homeworks[parsed]
        /\ Len(StatusSends) = parsed
        /\ ~StatusSends[parsed].delivered
    /\ \A i \in DOMAIN StatusSends :
        ~StatusSends[i].delivered => (raisedAt = "send_message" /\ i = parsed)
C16_Witness ==
    /\ pc = "finally"
    /\ raisedAt = "send_message"
    /\ Len(homeworks) = 2
    /\ parsed = 1
    /\ homeworks[2].status = "approved"
    /\ Len(outbox) = 2

\* C17: a response whose first element is a dict and a later one is not
\* passes check_response; the failure comes when that element is
\* translated, after the records before it were sent, and is caught, logged
\* and passed to send_error_message.
LaterMalformed(body) ==
    /\ ValidShape(body)
    /\ Len(body.homeworks) > 1
    /\ body.homeworks[1].isDict
    /\ \E i \in DOMAIN body.homeworks : ~body.homeworks[i].isDict
C17_OnlyFirstElementChecked ==
    (fetched.kind = "response" /\ fetched.status_code = HTTP_OK /\ fetched.json
       /\ LaterMalformed(fetched.body) /\ pc # "check")
    => /\ validated
       /\ raisedAt # "check_response"
       /\ (parsed > 0 /\ ~hw.isDict) =>
            /\ raisedAt = "parse_status"
            /\ caught.type = "AttributeError"
            /\ Aborted
            /\ Len(StatusSends) = parsed - 1
            /\ \A i \in DOMAIN StatusSends : StatusSends[i].delivered
            /\ pc # "except" =>
                /\ ErrorLines = <<Error(ErrorText(caught))>>
                /\ runMsg = ErrorText(caught)
                /\ \/ Len(ErrorSends) = 1 /\ ErrorSends[1].text = ErrorText(caught)
                   \/ ErrorSends = <<>> /\ runRepeated
C17_Witness ==
    /\ pc = "finally"
    /\ parsed = 2
    /\ ~hw.isDict
    /\ Len(StatusSends) = 1
    /\ Len(ErrorSends) = 1
    /\ ErrorSends[1].delivered

\* C18 as stated: the from_date of a request is never smaller than the
\* from_date of the request before it.
C18_NeverRolledBack == prev.ended => from_date >= prev.from_date
\* C18 amended: the cursor is set at startup and afterwards only by line 153,
\* to the current_date of a response that passed check_response; it gets
\* smaller only when that current_date is smaller than the from_date of the
\* request, and no failure restores an earlier value.
C18_Step ==
    /\ timestamp' # timestamp =>
        \/ pc = "start" /\ timestamp = Unset
        \/ pc = "check" /\ validated'
    /\ (pc = "check" /\ validated') => timestamp' = api_response.current_date
    /\ timestamp' < timestamp =>
        (pc = "check" /\ validated' /\ api_response.current_date < from_date)
C18_CursorFollowsCurrentDate == [][C18_Step]_vars
C18_Witness ==
    /\ pc = "fetch"
    /\ prev.ended
    /\ prev.raisedAt = "none"
    /\ prev.from_date = 1
    /\ timestamp = 0

\* C19: an iteration calls bot.send_message for an error at most once: not
\* at all when nothing raised, once when the error text differs from
\* LAST_ERROR_MESSAGE; and an iteration that failed never empties
\* LAST_ERROR_MESSAGE.
C19_Step ==
    /\ pc = "except" =>
        Len(ErrorSends') = (IF ErrorText(caught) # LAST_ERROR_MESSAGE THEN 1 ELSE 0)
    /\ (Failed /\ LAST_ERROR_MESSAGE # <<>>) => LAST_ERROR_MESSAGE' # <<>>
C19_OneErrorSendPerIteration ==
    /\ [](/\ Len(ErrorSends) <= 1
          /\ ~Handled => ErrorSends = <<>>)
    /\ [][C19_Step]_vars
C19_Witness ==
    /\ pc = "finally"
    /\ Failed
    /\ Len(ErrorSends) = 1
    /\ ErrorSends[1].delivered
    /\ prev.ended
    /\ prev.raisedAt # "none"
    /\ runMsg # Watched

====
